---- MODULE Spec2Model ----
(***************************************************************************)
(* BadgerRaftStore (kgantsov/raft-badgerstore): a raft LogStore and        *)
(* StableStore kept in one ordered Badger keyspace.                        *)
(*                                                                         *)
(* A uint64 is a tuple of four 16-bit limbs, most significant first (TLC   *)
(* integers are 32 bits wide); a key or a value is a sequence of bytes.    *)
(* The committed keyspace is the sequence db of entries in ascending key   *)
(* order, which is the order Badger iterates in.                           *)
(***************************************************************************)
EXTENDS Naturals, Sequences, FiniteSets

VARIABLES db, stored, stable, st, dr, res, ops

vars == <<db, stored, stable, st, dr, res, ops>>

---------------------------------------------------------------------------
(* Bounds of the model *)

\* number of calls begun in one behaviour
MaxOps == 2
\* records in one StoreLogs call
MaxLogs == 2
\* entries of the small pre-populated log (more than PrefetchSize)
MidLen == 12
\* entries of the large pre-populated log (more than batchSize)
BulkLen == 105

---------------------------------------------------------------------------
(* Program constants *)

batchSize == 100
PrefetchSize == 10

dbLogs == <<108, 111, 103, 115>>
\* the stable store shares the prefix of the logs
dbConfMutant == <<108, 111, 103, 115>>
dbConf == <<99, 111, 110, 102>>

ErrKeyNotFound == "not found"
ErrLogNotFound == "log not found"

---------------------------------------------------------------------------
(* uint64 values *)

U64(n) == <<0, 0, 0, n>>
MaxUint64 == <<65535, 65535, 65535, 65535>>
\* 0xFF00000000000000: the least index whose most significant byte is 0xFF
HighFF == <<65280, 0, 0, 0>>

\* a < b on uint64
U64Less(a, b) ==
    \E i \in 1..4 : a[i] < b[i] /\ \A j \in 1..(i - 1) : a[j] = b[j]

uint64ToBytes(u) ==
    << u[1] \div 256, u[1] % 256, u[2] \div 256, u[2] % 256,
       u[3] \div 256, u[3] % 256, u[4] \div 256, u[4] % 256 >>

\* the bytes are read least significant first
bytesToUint64Mutant(b) ==
    << b[8] * 256 + b[7], b[6] * 256 + b[5],
       b[4] * 256 + b[3], b[2] * 256 + b[1] >>

bytesToUint64(b) ==
    << b[1] * 256 + b[2], b[3] * 256 + b[4],
       b[5] * 256 + b[6], b[7] * 256 + b[8] >>

addPrefix(prefix, key) == prefix \o key

End(prefix) == prefix \o <<255>>

---------------------------------------------------------------------------
(* The codec: a record is [Index, Data] *)

EncodeMsgPack(log) == <<146>> \o uint64ToBytes(log.Index) \o log.Data

DecodeMsgPack(buf) ==
    [Index |-> bytesToUint64(SubSeq(buf, 2, 9)), Data |-> SubSeq(buf, 10, Len(buf))]

---------------------------------------------------------------------------
(* The engine: byte order, seek, point lookup, commit *)

\* bytes.Compare(a, b) < 0
KeyLess(a, b) ==
    LET n == IF Len(a) < Len(b) THEN Len(a) ELSE Len(b)
        diff == {i \in 1..n : a[i] # b[i]}
    IN  IF diff = {}
        THEN Len(a) < Len(b)
        ELSE LET i == CHOOSE x \in diff : \A y \in diff : x <= y
             IN  a[i] < b[i]

HasPrefix(key, prefix) ==
    Len(key) >= Len(prefix) /\ SubSeq(key, 1, Len(prefix)) = prefix

\* forward Seek: the position of the least key >= key (Len + 1 when there is none)
Seek(d, key) == 1 + Cardinality({i \in 1..Len(d) : KeyLess(d[i].key, key)})

\* reverse Seek: the position of the greatest key <= key (0 when there is none)
SeekReverse(d, key) == Cardinality({i \in 1..Len(d) : ~KeyLess(key, d[i].key)})

ValidForPrefix(d, p, prefix) ==
    p >= 1 /\ p <= Len(d) /\ HasPrefix(d[p].key, prefix)

\* txn.Get: the position of key, 0 when the key is absent
TxnGet(d, key) ==
    LET hit == {i \in 1..Len(d) : d[i].key = key}
    IN  IF hit = {} THEN 0 ELSE CHOOSE i \in hit : TRUE

\* a key that is present keeps its value
PutEntryMutant(d, k, v) ==
    LET p == Seek(d, k)
    IN  IF p <= Len(d) /\ d[p].key = k
        THEN d
        ELSE SubSeq(d, 1, p - 1) \o <<[key |-> k, val |-> v]>> \o SubSeq(d, p, Len(d))

\* one committed Set
PutEntry(d, k, v) ==
    LET p == Seek(d, k)
    IN  IF p <= Len(d) /\ d[p].key = k
        THEN [d EXCEPT ![p] = [key |-> k, val |-> v]]
        ELSE SubSeq(d, 1, p - 1) \o <<[key |-> k, val |-> v]>> \o SubSeq(d, p, Len(d))

\* the first write of a key wins
CommitSetsMutant(d, writes) ==
    LET wkeys == {writes[i].key : i \in 1..Len(writes)}
        first(k) == writes[CHOOSE i \in 1..Len(writes) :
                              /\ writes[i].key = k
                              /\ \A j \in 1..(i - 1) : writes[j].key # k].val
        merge[i \in 0..Len(writes)] ==
            IF i = 0 THEN d
            ELSE PutEntry(merge[i - 1], writes[i].key, first(writes[i].key))
    IN  merge[Len(writes)]

\* the pending writes of a transaction (the last write of a key wins), merged
\* into the ordered keyspace at commit
CommitSets(d, writes) ==
    LET wkeys == {writes[i].key : i \in 1..Len(writes)}
        final(k) == writes[CHOOSE i \in 1..Len(writes) :
                              /\ writes[i].key = k
                              /\ \A j \in (i + 1)..Len(writes) : writes[j].key # k].val
        fresh == wkeys \ {d[i].key : i \in 1..Len(d)}
        posOld(i) == i + Cardinality({k \in fresh : KeyLess(k, d[i].key)})
        posNew(k) == Seek(d, k) + Cardinality({k2 \in fresh : KeyLess(k2, k)})
        placed ==
            {<<posOld(i), [key |-> d[i].key,
                           val |-> IF d[i].key \in wkeys THEN final(d[i].key)
                                   ELSE d[i].val]>> : i \in 1..Len(d)}
            \cup {<<posNew(k), [key |-> k, val |-> final(k)]>> : k \in fresh}
    IN  [q \in 1..(Len(d) + Cardinality(fresh)) |->
            (CHOOSE pr \in placed : pr[1] = q)[2]]

\* the pending deletes of a transaction
CommitDeletes(d, keys) == SelectSeq(d, LAMBDA e : e.key \notin keys)

---------------------------------------------------------------------------
(* Readers: each runs in one read-only transaction, on one committed state *)

\* the iteration starts at the first key of the keyspace, not at the prefix
FirstIndexMutant(d) ==
    LET p == Seek(d, <<>>)
    IN  IF ValidForPrefix(d, p, dbLogs)
        THEN bytesToUint64(SubSeq(d[p].key, Len(dbLogs) + 1, Len(d[p].key)))
        ELSE U64(0)

FirstIndex(d) ==
    LET p == Seek(d, dbLogs)
    IN  IF ValidForPrefix(d, p, dbLogs)
        THEN bytesToUint64(SubSeq(d[p].key, Len(dbLogs) + 1, Len(d[p].key)))
        ELSE U64(0)

LastIndex(d) ==
    LET p == SeekReverse(d, End(dbLogs))
    IN  IF ValidForPrefix(d, p, dbLogs)
        THEN bytesToUint64(SubSeq(d[p].key, Len(dbLogs) + 1, Len(d[p].key)))
        ELSE U64(0)

GetLog(d, idx) ==
    LET p == TxnGet(d, addPrefix(dbLogs, uint64ToBytes(idx)))
    IN  IF p = 0 \/ d[p].val = <<>>
        THEN [err |-> ErrLogNotFound]
        ELSE [err |-> "nil", log |-> DecodeMsgPack(d[p].val)]

\* an empty value is returned as a value
GetMutant(d, k) ==
    LET p == TxnGet(d, addPrefix(dbConf, k))
    IN  IF p = 0
        THEN [err |-> ErrKeyNotFound]
        ELSE [err |-> "nil", val |-> d[p].val]

Get(d, k) ==
    LET p == TxnGet(d, addPrefix(dbConf, k))
    IN  IF p = 0 \/ d[p].val = <<>>
        THEN [err |-> ErrKeyNotFound]
        ELSE [err |-> "nil", val |-> d[p].val]

---------------------------------------------------------------------------
(* Inputs of the calls *)

\* index 1 is stored with another payload than the pre-populated one; HighFF has
\* 0xFF as its first byte and 0 as its last
Records ==
    { [Index |-> U64(1), Data |-> <<98>>],
      [Index |-> HighFF, Data |-> <<97>>] }
LogSeqs == UNION {[1..n -> Records] : n \in 0..MaxLogs}

DeleteArgs ==
    { <<U64(1), U64(3)>>, <<U64(1), U64(BulkLen)>>,
      <<U64(2), MaxUint64>>, <<U64(3), U64(1)>> }

\* a stable key of the length of an encoded index
ConfKeys == {uint64ToBytes(U64(1))}
ConfVals == {<<>>, <<7>>}

\* the logs 1..n, as testRaftLog builds them
InitLogs(n) == [i \in 1..n |-> [Index |-> U64(i), Data |-> <<97>>]]

---------------------------------------------------------------------------
(* StoreLog, StoreLogs *)

\* every iteration encodes the first record of the call
PendingMutant(logs, n) ==
    [i \in 1..n |-> [key |-> addPrefix(dbLogs, uint64ToBytes(logs[i].Index)),
                     val |-> EncodeMsgPack(logs[1])]]

\* the writes the first n iterations of the loop hand to txn.Set
Pending(logs, n) ==
    [i \in 1..n |-> [key |-> addPrefix(dbLogs, uint64ToBytes(logs[i].Index)),
                     val |-> EncodeMsgPack(logs[i])]]

\* the writes reach the committed state as they are made
TxnSetMutant(d, pending) == CommitSets(d, pending)

\* txn.Set buffers the write in the transaction: the committed state is unchanged
TxnSet(d, pending) == d

\* the writes made so far are committed on the error path
DiscardMutant(d, pending) == CommitSets(d, pending)

\* txn.Discard drops the pending writes
Discard(d, pending) == d

\* the records of a call, the later of two records with one index winning
Overwrite(s, logs) ==
    LET idxs == {logs[k].Index : k \in 1..Len(logs)}
        last(i) == CHOOSE k \in 1..Len(logs) :
                       /\ logs[k].Index = i
                       /\ \A j \in (k + 1)..Len(logs) : logs[j].Index # i
    IN  [i \in DOMAIN s \cup idxs |-> IF i \in idxs THEN logs[last(i)] ELSE s[i]]

NoRes == [op |-> "none", err |-> "nil"]
Idle == [pc |-> "idle"]

\* the loop of StoreLogs: failAt = 0 when every encode and Set succeeds, else the
\* record whose encode or Set fails; res.at is the place of the failure, the
\* commit counting as the place after the last record
StoreLogs(logs, failAt) ==
    /\ st.pc = "idle"
    /\ ops < MaxOps
    /\ ops' = ops + 1
    /\ IF failAt = 0
       THEN /\ st' = [pc |-> "commit", logs |-> logs,
                      pending |-> Pending(logs, Len(logs))]
            /\ db' = TxnSet(db, Pending(logs, Len(logs)))
            /\ res' = NoRes
       ELSE /\ st' = Idle
            /\ db' = Discard(db, Pending(logs, failAt - 1))
            /\ res' = [op |-> "StoreLogs", err |-> "error", at |-> failAt]
    /\ UNCHANGED <<stored, stable, dr>>

StoreLog(log, failAt) == StoreLogs(<<log>>, failAt)

\* return txn.Commit()
StoreLogsCommit(fail) ==
    /\ st.pc = "commit"
    /\ st' = Idle
    /\ IF fail
       THEN /\ db' = Discard(db, st.pending)
            /\ res' = [op |-> "StoreLogs", err |-> "error", at |-> Len(st.logs) + 1]
            /\ UNCHANGED <<stored, dr>>
       ELSE /\ db' = CommitSets(db, st.pending)
            /\ stored' = Overwrite(stored, st.logs)
            /\ res' = [op |-> "StoreLogs", err |-> "nil"]
            /\ dr' = IF dr.pc = "idle" THEN dr ELSE [dr EXCEPT !.quiet = FALSE]
    /\ UNCHANGED <<stable, ops>>

---------------------------------------------------------------------------
(* DeleteRange: one transaction per batch *)

LogIndex(key) == bytesToUint64(SubSeq(key, Len(dbLogs) + 1, Len(key)))

\* the position the forward iteration from start stops at without deleting: the
\* first one that is past the namespace or holds an Index above max
StopPos(d, start, max) ==
    LET last == IF Len(d) < start + batchSize THEN Len(d) ELSE start + batchSize
        stops == {p \in start..last :
                     \/ ~HasPrefix(d[p].key, dbLogs)
                     \/ U64Less(max, LogIndex(d[p].key))}
    IN  IF stops = {} THEN last + 1
        ELSE CHOOSE p \in stops : \A q \in stops : p <= q

\* count: the keys one batch hands to txn.Delete, those at start..start+count-1
BatchCount(d, start, max) ==
    LET n == StopPos(d, start, max) - start
    IN  IF n >= batchSize THEN batchSize ELSE n

\* the calls of it.Next() in one batch: none follows the Delete that fills the batch
NextCalls(count) == IF count >= batchSize THEN count - 1 ELSE count

\* lastKey: a copy of the key of the last item visited
LastKey(d, start, max) ==
    LET count == BatchCount(d, start, max)
        stop == start + count
    IN  IF count < batchSize /\ ValidForPrefix(d, stop, dbLogs)
        THEN d[stop].key
        ELSE d[stop - 1].key

\* item.Key() is the Item's own slice, valid until it.Next(). Badger's iterator
\* hands the Item it leaves back to the loader, which refills it with the key
\* PrefetchSize places ahead while the keyspace has one; txn.Delete keeps the
\* slice, not a copy, so this is the position whose key the slice holds at commit.
RECURSIVE SlicePos(_, _, _, _)
SlicePos(d, start, nexts, p) ==
    IF p - start + 1 <= nexts /\ p + PrefetchSize <= Len(d)
    THEN SlicePos(d, start, nexts, p + PrefetchSize)
    ELSE p

\* the keys the batch's transaction deletes at commit; recycled says whether the
\* engine has refilled the Items the iterator left
DeletedKeys(d, start, count, recycled) ==
    {d[IF recycled THEN SlicePos(d, start, NextCalls(count), p) ELSE p].key :
        p \in start..(start + count - 1)}

Without(s, keys) ==
    [i \in {j \in DOMAIN s : addPrefix(dbLogs, uint64ToBytes(j)) \notin keys} |-> s[i]]

ConfOf(d) == SelectSeq(d, LAMBDA e : HasPrefix(e.key, dbConf))

DeleteRange(min, max) ==
    /\ dr.pc = "idle"
    /\ ops < MaxOps
    /\ ops' = ops + 1
    /\ dr' = [pc |-> "loop", min |-> min, max |-> max,
              minKey |-> addPrefix(dbLogs, uint64ToBytes(min)),
              before |-> stored, conf |-> ConfOf(db), batches |-> 0, quiet |-> TRUE]
    /\ res' = NoRes
    /\ UNCHANGED <<db, stored, stable, st>>

DeleteRangeResult(err) ==
    [op |-> "DeleteRange", err |-> err, min |-> dr.min, max |-> dr.max,
     before |-> dr.before, conf |-> dr.conf, batches |-> dr.batches,
     quiet |-> dr.quiet]

\* one iteration of the for loop; fail: txn.Delete or txn.Commit returns an error
DeleteBatch(recycled, fail) ==
    /\ dr.pc = "loop"
    /\ LET start == Seek(db, dr.minKey)
           count == BatchCount(db, start, dr.max)
       IN  IF count = 0
           THEN /\ dr' = Idle
                /\ res' = DeleteRangeResult("nil")
                /\ UNCHANGED <<db, stored>>
           ELSE IF fail
           THEN /\ dr' = Idle
                /\ res' = DeleteRangeResult("error")
                /\ UNCHANGED <<db, stored>>
           ELSE LET keys == DeletedKeys(db, start, count, recycled)
                IN  /\ db' = CommitDeletes(db, keys)
                    /\ stored' = Without(stored, keys)
                    /\ dr' = [dr EXCEPT !.minKey = LastKey(db, start, dr.max) \o <<0>>,
                                        !.batches = @ + 1]
                    /\ res' = NoRes
    /\ UNCHANGED <<stable, st, ops>>

---------------------------------------------------------------------------
(* The stable store *)

\* the value last set under each key, for the keys set so far
SetLast(s, k, v) == [x \in DOMAIN s \cup {k} |-> IF x = k THEN v ELSE s[x]]

Set(k, v, fail) ==
    /\ ops < MaxOps
    /\ ops' = ops + 1
    /\ IF fail
       THEN /\ db' = Discard(db, <<[key |-> addPrefix(dbConf, k), val |-> v]>>)
            /\ res' = [op |-> "Set", err |-> "error"]
            /\ UNCHANGED <<stable, dr>>
       ELSE /\ db' = PutEntry(db, addPrefix(dbConf, k), v)
            /\ stable' = SetLast(stable, k, v)
            /\ res' = [op |-> "Set", err |-> "nil"]
            /\ dr' = IF dr.pc = "idle" THEN dr ELSE [dr EXCEPT !.quiet = FALSE]
    /\ UNCHANGED <<stored, st>>

\* SetUint64 is Set of the 8-byte big-endian encoding
SetUint64(key, val, fail) == Set(key, uint64ToBytes(val), fail)

\* binary.BigEndian.Uint64 panics on a slice shorter than 8 bytes
GetUint64(d, key) ==
    LET r == Get(d, key)
    IN  IF r.err # "nil" THEN [val |-> U64(0), err |-> r.err]
        ELSE IF Len(r.val) < 8 THEN [err |-> "panic"]
        ELSE [val |-> bytesToUint64(r.val), err |-> "nil"]

---------------------------------------------------------------------------
(* Calls of the readers: each runs in a read-only transaction and returns *)

ReadCall(op, arg, out) ==
    /\ ops < MaxOps
    /\ ops' = ops + 1
    /\ res' = [op |-> op, err |-> out.err, arg |-> arg, out |-> out]
    /\ UNCHANGED <<db, stored, stable, st, dr>>

CallGet(k) == ReadCall("Get", k, Get(db, k))

CallGetUint64(k) == ReadCall("GetUint64", k, GetUint64(db, k))

CallGetLog(idx) == ReadCall("GetLog", idx, GetLog(db, idx))

---------------------------------------------------------------------------
(* The stable store on its own, over more keys and values *)

\* the empty key, a one-byte key, and the bytes of the log prefix as a key
StableKeys == {<<>>, <<120>>, dbLogs}
\* the empty value, and values shorter than a uint64
StableVals == {<<>>, <<7>>, <<255, 0>>}
StableNums == {U64(0), U64(1), HighFF, MaxUint64}

StableInit ==
    /\ \E n \in {0, MaxLogs} :
          /\ db = CommitSets(<<>>, Pending(InitLogs(n), n))
          /\ stored = Overwrite(<<>>, InitLogs(n))
    /\ stable = <<>>
    /\ st = Idle
    /\ dr = Idle
    /\ res = NoRes
    /\ ops = 0

StableNext ==
    \/ \E k \in StableKeys : \E v \in StableVals : \E fail \in BOOLEAN : Set(k, v, fail)
    \/ \E k \in StableKeys : \E n \in StableNums : \E fail \in BOOLEAN :
           SetUint64(k, n, fail)
    \/ \E k \in StableKeys : CallGet(k)
    \/ \E k \in StableKeys : CallGetUint64(k)
    \/ \E i \in {U64(1), U64(MaxLogs + 1)} : CallGetLog(i)

StableSpec == StableInit /\ [][StableNext]_vars

---------------------------------------------------------------------------
(* The process stops with calls in flight: what was committed stays *)

Crash ==
    /\ st.pc # "idle" \/ dr.pc # "idle"
    /\ st' = Idle
    /\ dr' = Idle
    /\ res' = IF dr.pc = "idle" THEN [op |-> "Crash", err |-> "crash"]
              ELSE DeleteRangeResult("crash")
    /\ UNCHANGED <<db, stored, stable, ops>>

---------------------------------------------------------------------------

\* New wraps an opened database, which may hold the logs of an earlier run
Init ==
    /\ \E n \in {0, MidLen, BulkLen} :
          /\ db = CommitSets(<<>>, Pending(InitLogs(n), n))
          /\ stored = Overwrite(<<>>, InitLogs(n))
    /\ stable = <<>>
    /\ st = Idle
    /\ dr = Idle
    /\ res = NoRes
    /\ ops = 0

Next ==
    \/ \E logs \in LogSeqs : \E failAt \in 0..Len(logs) : StoreLogs(logs, failAt)
    \/ \E log \in Records : \E failAt \in 0..1 : StoreLog(log, failAt)
    \/ \E fail \in BOOLEAN : StoreLogsCommit(fail)
    \/ \E a \in DeleteArgs : DeleteRange(a[1], a[2])
    \/ \E recycled \in BOOLEAN : \E fail \in BOOLEAN : DeleteBatch(recycled, fail)
    \/ \E k \in ConfKeys : \E v \in ConfVals : \E fail \in BOOLEAN : Set(k, v, fail)
    \/ Crash

Spec == Init /\ [][Next]_vars

---------------------------------------------------------------------------
(* The log store on its own, over records that share an index *)

\* index 1 with two payloads, neither the pre-populated one
DupRecords == Records \cup {[Index |-> U64(1), Data |-> <<99>>]}
DupLogSeqs == UNION {[1..n -> DupRecords] : n \in 0..MaxLogs}

LogNext ==
    \/ \E logs \in DupLogSeqs : \E failAt \in 0..Len(logs) : StoreLogs(logs, failAt)
    \/ \E log \in DupRecords : \E failAt \in 0..1 : StoreLog(log, failAt)
    \/ \E fail \in BOOLEAN : StoreLogsCommit(fail)

LogSpec == StableInit /\ [][LogNext]_vars

---------------------------------------------------------------------------
(* Properties *)

Found(log) == [err |-> "nil", log |-> log]
NotFound == [err |-> ErrLogNotFound]

InRange(i, min, max) == ~U64Less(i, min) /\ ~U64Less(max, i)

MinIdx(S) == CHOOSE x \in S : \A y \in S : ~U64Less(y, x)
MaxIdx(S) == CHOOSE x \in S : \A y \in S : ~U64Less(x, y)

\* a DeleteRange call has returned nil, and no other writer committed during it
DeleteRangeDone ==
    res.op = "DeleteRange" /\ res.err = "nil" /\ res.quiet

\* C1: after DeleteRange(min, max) with min <= max returns nil, GetLog fails with
\* ErrLogNotFound for every index of [min, max] that was stored before the call
C1_RangeIsDeleted ==
    (DeleteRangeDone /\ ~U64Less(res.max, res.min)) =>
        \A i \in DOMAIN res.before :
            InRange(i, res.min, res.max) => GetLog(db, i) = NotFound

\* C2: after DeleteRange(min, max) returns nil, GetLog returns the record it
\* returned before the call for every stored index outside [min, max]
C2_OutsideIsKept ==
    DeleteRangeDone =>
        \A i \in DOMAIN res.before :
            ~InRange(i, res.min, res.max) => GetLog(db, i) = Found(res.before[i])

\* C3: LastIndex returns the greatest index stored, for every uint64 index, and 0
\* when no log is stored
C3_LastIndexIsMax ==
    LastIndex(db) = IF DOMAIN stored = {} THEN U64(0) ELSE MaxIdx(DOMAIN stored)

\* C4: FirstIndex returns the least index stored, and 0 when no log is stored,
\* whatever the stable store holds
C4_FirstIndexIsMin ==
    FirstIndex(db) = IF DOMAIN stored = {} THEN U64(0) ELSE MinIdx(DOMAIN stored)

\* stable entries are present, logs were stored out of index order by one call
C4_Witness ==
    /\ ConfOf(db) # <<>>
    /\ res.op = "StoreLogs" /\ res.err = "nil"
    /\ HighFF \in DOMAIN stored
    /\ FirstIndex(db) = U64(1)

\* the indices a reader asks for: around both ends of the pre-populated logs
\* (stored, deleted and never stored ones) and at the top of the domain
Probes ==
    {U64(i) : i \in (0..(MidLen + 1)) \cup ((BulkLen - PrefetchSize)..(BulkLen + 1))}
        \cup {HighFF, MaxUint64}

\* C5: GetLog(i) returns exactly the record stored at i, for every record of a
\* StoreLogs call that succeeded, and fails with ErrLogNotFound for every index
\* that is not stored (never stored, or removed by DeleteRange)
C5_GetLogReturnsStored ==
    \A i \in Probes :
        GetLog(db, i) = IF i \in DOMAIN stored THEN Found(stored[i]) ELSE NotFound

\* a StoreLogs call succeeded after a DeleteRange removed index 2
C5_Witness ==
    /\ res.op = "StoreLogs" /\ res.err = "nil"
    /\ GetLog(db, U64(1)) = Found([Index |-> U64(1), Data |-> <<98>>])
    /\ GetLog(db, U64(2)) = NotFound
    /\ GetLog(db, U64(4)).err = "nil"

\* C6: a StoreLogs (or StoreLog) call that returns an error has persisted none of
\* its records: the keyspace is the one before the call
C6_AllOrNothing ==
    [][(res'.op = "StoreLogs" /\ res'.err # "nil") => (db' = db /\ stored' = stored)]_vars

\* the second record of a call failed after the first was handed to txn.Set
C6_Witness ==
    res.op = "StoreLogs" /\ res.err = "error" /\ res.at = 2 /\ ops = 1

RangeOf(call) == {i \in DOMAIN call.before : InRange(i, call.min, call.max)}

\* C7: when DeleteRange stops after some batches committed, the entries deleted
\* so far are the lowest stored indices of [min, max], whole batches of them,
\* and every other entry stored before the call is intact
C7_InterruptedPrefix ==
    (res.op = "DeleteRange" /\ res.err # "nil" /\ res.quiet /\ res.batches >= 1) =>
        LET inR == RangeOf(res)
            gone == {i \in DOMAIN res.before : GetLog(db, i) = NotFound}
            whole == res.batches * batchSize
        IN  /\ gone \subseteq inR
            /\ \A i \in gone : \A j \in inR \ gone : U64Less(i, j)
            /\ Cardinality(gone) =
                  IF whole < Cardinality(inR) THEN whole ELSE Cardinality(inR)
            /\ \A i \in DOMAIN res.before \ gone : GetLog(db, i) = Found(res.before[i])

\* C8: after DeleteRange(min, max) returned nil, the first batch of a second
\* DeleteRange(min, max) finds no key to delete, so the call commits nothing and
\* returns nil, and the stable store is the one before the first call
C8_Idempotent ==
    DeleteRangeDone =>
        /\ BatchCount(db, Seek(db, addPrefix(dbLogs, uint64ToBytes(res.min))), res.max) = 0
        /\ ConfOf(db) = res.conf

LastOf(logs, i) == Overwrite(<<>>, logs)[i]

\* C9: the records of a StoreLogs call become visible together at its commit and
\* none before: the loop leaves the committed state alone, no step taken while
\* the call is in flight makes one of its records appear, and the commit either
\* shows all of them or none
C9_VisibleTogether ==
    [][/\ (st.pc = "idle" /\ st'.pc = "commit") => db' = db
       /\ (st.pc = "commit" /\ st'.pc = "commit") =>
             \A k \in 1..Len(st.logs) :
                 \/ GetLog(db', st.logs[k].Index) = GetLog(db, st.logs[k].Index)
                 \/ GetLog(db', st.logs[k].Index) = NotFound
       /\ (st.pc = "commit" /\ st'.pc = "idle") =>
             \/ db' = db
             \/ \A k \in 1..Len(st.logs) :
                    GetLog(db', st.logs[k].Index) =
                        Found(LastOf(st.logs, st.logs[k].Index))]_vars

\* a call of two records of different indices is in flight, and neither record is
\* visible
C9_Witness ==
    /\ st.pc = "commit"
    /\ Len(st.logs) = 2
    /\ st.logs[1].Index # st.logs[2].Index
    /\ \A k \in 1..2 : GetLog(db, st.logs[k].Index) # Found(st.logs[k])

\* C10: while DeleteRange runs, GetLog observes for each index of the range the
\* state after the deletion when the index's batch has committed and the state
\* before it otherwise
C10_BatchDecides ==
    (dr.pc = "loop" /\ dr.quiet) =>
        LET inR == RangeOf(dr)
        IN  \A i \in inR :
                GetLog(db, i) =
                    IF Cardinality({j \in inR : U64Less(j, i)}) < dr.batches * batchSize
                    THEN NotFound
                    ELSE Found(dr.before[i])

---------------------------------------------------------------------------
(* The stable store *)

\* C11 as stated: Get(k) returns the value last set under k, byte for byte, for
\* every byte-string value, the later of two values set under one key winning
C11_SetThenGet ==
    \A k \in DOMAIN stable : Get(db, k) = [err |-> "nil", val |-> stable[k]]

\* C11 amended: Get(k) returns the value last set under k, byte for byte, when
\* that value is not empty, the later of two values set under one key winning;
\* after Set(k, v) with an empty v, Get(k) fails with ErrKeyNotFound
C11_SetThenGetNonEmpty ==
    \A k \in DOMAIN stable :
        Get(db, k) = IF stable[k] = <<>> THEN [err |-> ErrKeyNotFound]
                     ELSE [err |-> "nil", val |-> stable[k]]

\* two keys were set, the empty key among them, one to a value that is not empty
C11_Witness ==
    /\ res.op = "Set" /\ res.err = "nil"
    /\ Cardinality(DOMAIN stable) = 2
    /\ <<>> \in DOMAIN stable
    /\ \E k \in DOMAIN stable : Get(db, k) = [err |-> "nil", val |-> <<255, 0>>]

LogKey(i) == addPrefix(dbLogs, uint64ToBytes(i))

\* what the readers return on the keyspace d, sto and stab being the logs
\* stored and the values set: Get fails exactly for the keys never set and those
\* whose value is empty, GetUint64 then returns 0 and the same error, GetLog
\* fails for an index whose key is absent or holds an empty value
C12_Failures(d, sto, stab) ==
    /\ \A k \in StableKeys :
          /\ Get(d, k) = [err |-> ErrKeyNotFound]
                <=> (k \notin DOMAIN stab \/ stab[k] = <<>>)
          /\ Get(d, k).err # "nil"
                => GetUint64(d, k) = [val |-> U64(0), err |-> ErrKeyNotFound]
    /\ \A i \in {U64(n) : n \in 0..(MaxLogs + 1)} :
          /\ i \notin DOMAIN sto => GetLog(d, i) = NotFound
          /\ GetLog(PutEntry(d, LogKey(i), <<>>), i) = NotFound

\* C12: Get fails with ErrKeyNotFound exactly when the key was never set or its
\* value is empty, GetUint64 propagates the error with result 0, GetLog fails
\* with ErrLogNotFound for an absent key or an empty value, and a reader that
\* fails leaves the stored state as it was
C12_NotFound ==
    /\ C12_Failures(db, stored, stable)
    /\ [][/\ C12_Failures(db', stored', stable')
          /\ (res'.op \in {"Get", "GetUint64", "GetLog"} /\ res'.err # "nil")
                => (db' = db /\ stored' = stored /\ stable' = stable)]_vars

\* GetUint64 failed on a key that was set, to an empty value, and GetLog fails
\* on an index never stored
C12_Witness ==
    /\ res.op = "GetUint64" /\ res.out = [val |-> U64(0), err |-> ErrKeyNotFound]
    /\ res.arg \in DOMAIN stable
    /\ GetLog(db, U64(MaxLogs + 1)) = NotFound

\* C13: after SetUint64(k, n), GetUint64(k) returns n, for 0, the maximum value
\* and the values between: the value stored is the 8-byte big-endian encoding
\* of n, and decoding it gives n back
C13_Uint64RoundTrip ==
    \A k \in DOMAIN stable : \A n \in StableNums :
        stable[k] = uint64ToBytes(n) =>
            /\ Len(stable[k]) = 8
            /\ Get(db, k) = [err |-> "nil", val |-> uint64ToBytes(n)]
            /\ GetUint64(db, k) = [val |-> n, err |-> "nil"]

\* 0 was set under one key and the maximum value under another
C13_Witness ==
    /\ res.op = "Set" /\ res.err = "nil"
    /\ \E k1, k2 \in DOMAIN stable :
          /\ GetUint64(db, k1) = [val |-> U64(0), err |-> "nil"]
          /\ GetUint64(db, k2) = [val |-> MaxUint64, err |-> "nil"]

---------------------------------------------------------------------------
(* End *)

\* C14: every key of the keyspace is strictly less than End(p) for each of its
\* prefixes p; in particular every log key sorts before End(dbLogs)
C14_EndIsUpperBound ==
    \A e \in 1..Len(db) : \A n \in 0..Len(db[e].key) :
        KeyLess(db[e].key, End(SubSeq(db[e].key, 1, n)))

---------------------------------------------------------------------------
(* The batches of DeleteRange *)

KeysOf(d) == {d[i].key : i \in 1..Len(d)}

\* a step that commits one batch of DeleteRange
BatchCommitted == dr.pc = "loop" /\ dr'.pc = "loop" /\ dr'.batches = dr.batches + 1

\* the keys a step removes from the keyspace
Removed == KeysOf(db) \ KeysOf(db')

\* C15: a committed batch moves the cursor to the last key it deleted with one
\* zero byte appended: the new cursor is above every key deleted, and no key
\* still stored between the old cursor and the new one has its index in
\* [min, max]
C15_CursorAdvance ==
    [][BatchCommitted =>
          /\ \E k \in Removed :
                /\ \A g \in Removed : ~KeyLess(k, g)
                /\ dr'.minKey = k \o <<0>>
          /\ \A g \in Removed : KeyLess(g, dr'.minKey)
          /\ \A k \in KeysOf(db') :
                (HasPrefix(k, dbLogs) /\ ~KeyLess(k, dr.minKey) /\ KeyLess(k, dr'.minKey))
                    => ~InRange(LogIndex(k), dr.min, dr.max)]_vars

\* C16: every transaction DeleteRange commits deletes between 1 and batchSize
\* keys, each a log key with min <= Index <= max, and the batch that finds no key
\* to delete ends the call without changing the keyspace
C16_BatchContents ==
    [][/\ BatchCommitted =>
             /\ Cardinality(Removed) >= 1
             /\ Cardinality(Removed) <= batchSize
             /\ \A k \in Removed :
                   HasPrefix(k, dbLogs) /\ InRange(LogIndex(k), dr.min, dr.max)
       /\ (dr.pc = "loop" /\ dr'.pc = "idle" /\ res'.err = "nil") => db' = db]_vars

\* the batches that delete n keys, batchSize at a time
CeilBatches(n) == (n + batchSize - 1) \div batchSize

\* C17: every committed batch moves the cursor up; with n entries stored in
\* [min, max] and no other writer, DeleteRange never commits more than
\* ceil(n / batchSize) batches and has committed exactly that many when it
\* returns nil at the first batch that finds no key to delete, which is none when
\* min > max or the range holds no entry
C17_Terminates ==
    [][/\ BatchCommitted => KeyLess(dr.minKey, dr'.minKey)
       /\ (dr'.pc = "loop" /\ dr'.quiet) =>
             dr'.batches <= CeilBatches(Cardinality(RangeOf(dr')))
       /\ (res'.op = "DeleteRange" /\ res'.err = "nil" /\ res'.quiet) =>
             res'.batches = CeilBatches(Cardinality(RangeOf(res')))]_vars

---------------------------------------------------------------------------
(* The two namespaces *)

\* C18: a Set leaves FirstIndex, LastIndex and GetLog of every index as they
\* were, and every other step (of StoreLog, StoreLogs, DeleteRange with any max,
\* the top of the index domain included) leaves Get and GetUint64 of every key
\* as they were
C18_Namespaces ==
    [][/\ res'.op = "Set" =>
             /\ FirstIndex(db') = FirstIndex(db)
             /\ LastIndex(db') = LastIndex(db)
             /\ \A i \in Probes : GetLog(db', i) = GetLog(db, i)
       /\ res'.op # "Set" =>
             \A k \in ConfKeys \cup StableKeys :
                 /\ Get(db', k) = Get(db, k)
                 /\ GetUint64(db', k) = GetUint64(db, k)]_vars

\* a DeleteRange up to the top of the index domain has committed a batch and
\* returned, a Set having committed while it ran, and the value set is read back
C18_Witness ==
    /\ res.op = "DeleteRange" /\ res.err = "nil"
    /\ res.max = MaxUint64 /\ res.batches >= 1
    /\ ~res.quiet
    /\ \E k \in ConfKeys : Get(db, k) = [err |-> "nil", val |-> <<7>>]

\* C19: the keys a committed batch removes are the keys its iteration visited
\* with Index <= max, those handed to txn.Delete: each key slice handed over
\* still names the same entry when the transaction commits
C19_DeletesVisited ==
    [][BatchCommitted =>
          LET start == Seek(db, dr.minKey)
              count == BatchCount(db, start, dr.max)
          IN  Removed = {db[p].key : p \in start..(start + count - 1)}]_vars

---------------------------------------------------------------------------
(* Overwriting *)

\* the indices of a call
IndicesOf(logs) == {logs[k].Index : k \in 1..Len(logs)}

\* a step that commits the transaction of a StoreLogs call
StoreCommitted == st.pc = "commit" /\ res'.op = "StoreLogs" /\ res'.err = "nil"

\* C20: when a StoreLogs call commits, GetLog returns for each of its indices the
\* last record the call holds for it, replacing any record stored before; each
\* index is held by one key (the keyspace grows by the indices that were not
\* stored); and FirstIndex and LastIndex are unchanged when every index of the
\* call was stored already
C20_Overwrite ==
    [][StoreCommitted =>
          /\ \A i \in IndicesOf(st.logs) : GetLog(db', i) = Found(LastOf(st.logs, i))
          /\ Cardinality(KeysOf(db')) = Len(db')
          /\ Len(db') = Len(db) + Cardinality(IndicesOf(st.logs) \ DOMAIN stored)
          /\ IndicesOf(st.logs) \subseteq DOMAIN stored =>
                /\ FirstIndex(db') = FirstIndex(db)
                /\ LastIndex(db') = LastIndex(db)
                /\ KeysOf(db') = KeysOf(db)]_vars

\* the first call overwrote index 1, stored before, adding no index, and the
\* record it wrote is the one read back
C20_Witness ==
    /\ res.op = "StoreLogs" /\ res.err = "nil"
    /\ ops = 1
    /\ Len(db) = MaxLogs
    /\ GetLog(db, U64(1)) = Found([Index |-> U64(1), Data |-> <<99>>])

====
